---- MODULE Spec2Model ----
(***************************************************************************)
(* Model of the move-orchestration pipeline of chesshook.user.js           *)
(* (Lichook): WebSocket interception, FEN completion, the Stockfish        *)
(* adapter (readiness / calculating gate), the dispatch timers and the     *)
(* timing configuration handlers.                                          *)
(*                                                                         *)
(* JavaScript strings are sequences of one-character strings, so that      *)
(* split(' '), join(' '), includes() and .length are computed and not      *)
(* assumed.  null and undefined are the reserved values Null, Undefined.   *)
(***************************************************************************)
EXTENDS Bags, FiniteSets, Integers, Sequences, TLC

VARIABLES
  domReady,           \* DOMContentLoaded has run createUI / initializeChessEngine
  stockfishLoaded,    \* typeof STOCKFISH === 'function'
  initTimers,         \* pending setTimeout(initializeChessEngine, ...)
  webSocketWrapper,   \* tracked connection, 0 = null
  readyState,         \* readyState of the intercepted WebSockets ("NONE":
                      \* not constructed); other sockets are never read
  currentFen,
  bestMove,
  isEngineReady,
  isCalculating,
  lastCalculatedFen,
  moveHistory,
  settings,
  timers,             \* pending dispatch timers: bag of captured moves
  delay,              \* the local delay of the sendMoveWithDelay call that
                      \* has just run, 0 after any other handler
  outbox,             \* frames passed to webSocketWrapper.send, in order
  engineReqs,         \* positions given to the engine and not yet answered
  nInputs,            \* frames and recalculate commands handled so far
  results,            \* every result the engine handler accepted, in order
  run,                \* the consecutive state-update frames that completed
                      \* to currentFen, and the requests they submitted
  last,               \* the handler that ran last, and its outcome
  fenIn,              \* completeFen: argument under test
  fenOut              \* completeFen: result for fenIn

vars == <<domReady, stockfishLoaded, initTimers, webSocketWrapper, readyState,
          currentFen, bestMove, isEngineReady, isCalculating,
          lastCalculatedFen, moveHistory, settings, timers, delay, outbox,
          engineReqs, nInputs, results, run, last, fenIn, fenOut>>

---------------------------------------------------------------------------
(* Bounds of the model *)

MaxInputs == 2      \* frames plus recalculate commands
MaxConns == 1       \* intercepted WebSockets constructed
MaxTimers == 1      \* dispatch timers pending at once
MaxSent == 1        \* outbound frames recorded
MaxFields == 6      \* fields of an upstream position string
MaxResults == 55    \* requests of the long session that fills the history
MaxSockets == 2     \* intercepted WebSockets of a page that reconnects
MaxPending == 2     \* dispatch timers pending at once, overlapping dispatch
MaxFrames == 2      \* outbound frames recorded, overlapping dispatch

---------------------------------------------------------------------------
(* JavaScript values and string functions *)

Null == <<"null">>
Undefined == <<"undefined">>

\* !v for v a string, null or undefined
Truthy(v) == v # Null /\ v # Undefined /\ v # <<>>

\* s.split(' ')
RECURSIVE Split(_)
Split(s) ==
  IF s = <<>> THEN << <<>> >>
  ELSE LET r == Split(Tail(s)) IN
       IF Head(s) = " " THEN << <<>> >> \o r
       ELSE << <<Head(s)>> \o Head(r) >> \o Tail(r)

\* parts.join(' ')
RECURSIVE Join(_)
Join(parts) ==
  IF parts = <<>> THEN <<>>
  ELSE IF Len(parts) = 1 THEN Head(parts)
  ELSE Head(parts) \o <<" ">> \o Join(Tail(parts))

\* s.includes(sub)
Includes(s, sub) ==
  \E i \in 0..(Len(s) - Len(sub)) : SubSeq(s, i + 1, i + Len(sub)) = sub

\* the whitespace-separated fields of s, as the engine's parser sees them
IsNonEmpty(f) == f # <<>>
Fields(s) == SelectSeq(Split(s), IsNonEmpty)

---------------------------------------------------------------------------
(* Program constants *)

defaultMinDelay == 500
defaultMaxDelay == 2000
MinDelayFloor == 100
MinDelayFallback == 500
MaxDelayFallback == 2000
DelayGap == 100
HistoryCap == 50
MinMoveLength == 4

defaultSettings ==
  [autoMove |-> FALSE, humanLikeTiming |-> FALSE,
   minDelay |-> defaultMinDelay, maxDelay |-> defaultMaxDelay]

bestmoveWord == <<"b", "e", "s", "t", "m", "o", "v", "e">>
noneToken == <<"(", "n", "o", "n", "e", ")">>
lichessOrg == <<"l", "i", "c", "h", "e", "s", "s", ".", "o", "r", "g">>
socketPath == <<"/", "s", "o", "c", "k", "e", "t">>

---------------------------------------------------------------------------
(* completeFen, src lines 85-95 *)

Push(parts, n, x) == IF Len(parts) = n THEN Append(parts, x) ELSE parts

completeFen_ElseIf(partialFen) ==
  LET fenParts == Split(partialFen) IN
  IF Len(fenParts) = 6 THEN partialFen
  ELSE IF Len(fenParts) = 2 THEN Join(Append(fenParts, <<"-">>))
  ELSE IF Len(fenParts) = 3 THEN Join(Append(fenParts, <<"-">>))
  ELSE IF Len(fenParts) = 4 THEN Join(Append(fenParts, <<"0">>))
  ELSE IF Len(fenParts) = 5 THEN Join(Append(fenParts, <<"1">>))
  ELSE Join(fenParts)

completeFen(partialFen) ==
  LET fenParts == Split(partialFen) IN
  IF Len(fenParts) = 6 THEN partialFen
  ELSE LET p2 == Push(fenParts, 2, <<"-">>)
           p3 == Push(p2, 3, <<"-">>)
           p4 == Push(p3, 4, <<"0">>)
           p5 == Push(p4, 5, <<"1">>)
       IN Join(p5)

\* message handler, lines 126-133: the position a state-update frame yields
\* line 130: message.d.ply !== undefined ? message.d.ply : 0
PlyOf(hasPly, plyValue) == IF hasPly THEN plyValue ELSE 0

IsWhitesTurn(hasPly, plyValue) == PlyOf(hasPly, plyValue) % 2 = 0

FrameFen(fen, hasPly, plyValue) ==
  completeFen(fen \o (IF IsWhitesTurn(hasPly, plyValue) THEN <<" ", "w">>
                                                        ELSE <<" ", "b">>))

---------------------------------------------------------------------------
(* Inputs *)

\* message.d.fen as Lichess sends it: the piece placement alone
UpstreamFens == { <<"A">> }

\* message.d.fen of 0 to 6 fields: empty, placement only, placement with
\* side to move, ..., a full six-field position
WideFens ==
  { <<>>,
    <<"A">>,
    <<"A", " ", "b">>,
    <<"A", " ", "b", " ", "K">>,
    <<"A", " ", "b", " ", "K", " ", "e">>,
    <<"A", " ", "b", " ", "K", " ", "e", " ", "3">>,
    <<"A", " ", "b", " ", "K", " ", "e", " ", "3", " ", "7">> }

MaxPly == 1
PlyInputs ==
  {[has |-> FALSE, n |-> 0]} \cup {[has |-> TRUE, n |-> p] : p \in 0..MaxPly}

\* message.d of a state-update frame: fen is a string or absent
FrameData(fens) ==
  {[fen |-> f, hasPly |-> p.has, ply |-> p.n] :
     f \in fens \cup {Undefined}, p \in PlyInputs}

\* lines the engine emits when a search ends
EngineLines ==
  { <<"b", "e", "s", "t", "m", "o", "v", "e", " ", "e", "2", "e", "4", " ",
      "p", "o", "n", "d", "e", "r", " ", "e", "7", "e", "5">>,
    <<"b", "e", "s", "t", "m", "o", "v", "e", " ", "(", "n", "o", "n", "e", ")">> }

\* progress lines of a running search
InfoLines ==
  { <<"i", "n", "f", "o", " ", "d", "e", "p", "t", "h", " ", "4", " ",
      "s", "c", "o", "r", "e", " ", "c", "p", " ", "3", "1">> }

\* URLs given to new WebSocket(url)
Urls ==
  { <<"w", "s", ":", "/", "/", "a", ".", "l", "i", "c", "h", "e", "s", "s",
      ".", "o", "r", "g", "/", "p">>,
    <<"w", "s", ":", "/", "/", "h", "/", "s", "o", "c", "k", "e", "t">>,
    <<"w", "s", ":", "/", "/", "x", ".", "c", "o", "m", "/", "w", "s">> }

\* fields and strings completeFen is exercised on
FieldTokens == { <<"A">>, <<"-">>, <<>> }
FenStrings ==
  UNION {{Join(f) : f \in [1..n -> FieldTokens]} : n \in 0..(MaxFields + 1)}

---------------------------------------------------------------------------
(* Initial state: the script has run init() at document-start *)

NoRun == [len |-> 0, subs |-> 0, first |-> FALSE]
Ev(op, arg, ok) == [op |-> op, arg |-> arg, ok |-> ok, ply |-> 0]

InitPipeline ==
  /\ domReady = FALSE
  /\ stockfishLoaded \in BOOLEAN
  /\ initTimers = 0
  /\ webSocketWrapper = 0
  /\ readyState = [c \in 1..MaxConns |-> "NONE"]
  /\ currentFen = <<>>
  /\ bestMove = Null
  /\ isEngineReady = FALSE
  /\ isCalculating = FALSE
  /\ lastCalculatedFen = Null
  /\ moveHistory = <<>>
  /\ settings = defaultSettings
  /\ timers = EmptyBag
  /\ delay = 0
  /\ outbox = <<>>
  /\ engineReqs = <<>>
  /\ nInputs = 0
  /\ results = <<>>
  /\ run = NoRun
  /\ last = Ev("init", <<>>, TRUE)

Init ==
  /\ InitPipeline
  /\ fenIn = <<>>
  /\ fenOut = Undefined

---------------------------------------------------------------------------
(* calculateMove, lines 254-272 *)

\* the early returns of lines 255-262
CanCalculate_IgnoresBusy(fen, lastFen) ==
  /\ isEngineReady
  /\ fen # <<>>
  /\ fen # lastFen

CanCalculate_NoDedup(fen, lastFen) ==
  /\ isEngineReady
  /\ fen # <<>>
  /\ ~isCalculating

CanCalculate(fen, lastFen) ==
  /\ isEngineReady
  /\ fen # <<>>
  /\ ~isCalculating
  /\ fen # lastFen

\* called with the values currentFen and lastCalculatedFen have at the call;
\* gives the values of the variables it may write
calculateMove(fen, lastFen) ==
  IF CanCalculate(fen, lastFen)
  THEN [isCalculating |-> TRUE, lastCalculatedFen |-> fen,
        engineReqs |-> Append(engineReqs, fen), submitted |-> TRUE]
  ELSE [isCalculating |-> isCalculating, lastCalculatedFen |-> lastFen,
        engineReqs |-> engineReqs, submitted |-> FALSE]

NoCalculate ==
  [isCalculating |-> isCalculating, lastCalculatedFen |-> lastCalculatedFen,
   engineReqs |-> engineReqs, submitted |-> FALSE]

ApplyCalculate(r) ==
  /\ isCalculating' = r.isCalculating
  /\ lastCalculatedFen' = r.lastCalculatedFen
  /\ engineReqs' = r.engineReqs

---------------------------------------------------------------------------
(* sendMove, lines 278-312 *)

Connected_AnyState == webSocketWrapper # 0

Connected ==
  /\ webSocketWrapper # 0
  /\ readyState[webSocketWrapper] = "OPEN"

ValidMove_AnyTruthy(move) == Truthy(move)

\* line 284
ValidMove(move) == Truthy(move) /\ Len(move) >= MinMoveLength

\* lines 290-298
moveMessage(move) ==
  [t |-> "move", d |-> [u |-> move, b |-> 1, l |-> 10000, a |-> 1]]

sendMove_ClearsAlways(move) ==
  IF ~Connected \/ ~ValidMove(move)
  THEN [ok |-> FALSE, bestMove |-> Null, outbox |-> outbox]
  ELSE [ok |-> TRUE, bestMove |-> Null,
        outbox |-> Append(outbox, [sock |-> webSocketWrapper,
                                   msg |-> moveMessage(move)])]

sendMove(move) ==
  IF ~Connected THEN [ok |-> FALSE, bestMove |-> bestMove, outbox |-> outbox]
  ELSE IF ~ValidMove(move)
  THEN [ok |-> FALSE, bestMove |-> bestMove, outbox |-> outbox]
  ELSE [ok |-> TRUE, bestMove |-> Null,
        outbox |-> Append(outbox, [sock |-> webSocketWrapper,
                                   msg |-> moveMessage(move)])]

---------------------------------------------------------------------------
(* sendMoveWithDelay, lines 314-331 *)

\* Math.floor(Math.random() * d) for an integer d, Math.random() in [0, 1)
FloorRandomTimes(d) == IF d > 0 THEN 0..(d - 1) ELSE d..0

Delays(s) ==
  IF s.humanLikeTiming
  THEN {k + s.minDelay : k \in FloorRandomTimes(s.maxDelay - s.minDelay)}
  ELSE {s.minDelay}

\* schedules the timer that will call sendMove(move)
sendMoveWithDelay(move) ==
  /\ delay' \in Delays(settings)
  /\ timers' = timers (+) SetToBag({move})

---------------------------------------------------------------------------
(* WebSocket proxy, lines 104-161 *)

NoData == [fen |-> Undefined, hasPly |-> FALSE, ply |-> 0]

\* event.data: undecodable text, or a JSON object with fields t and d
MessagesOf(fens) ==
  {[json |-> TRUE, t |-> t, d |-> d] :
     t \in {"d", "move"}, d \in FrameData(fens)}
  \cup {[json |-> TRUE, t |-> t, d |-> NoData] : t \in {"end", "endData", "n"}}
  \cup {[json |-> FALSE, t |-> "", d |-> NoData]}

Messages == MessagesOf(UpstreamFens)
WideMessages == MessagesOf(WideFens)

\* line 110
UrlMatches(url) == Includes(url, lichessOrg) \/ Includes(url, socketPath)

\* construct trap: new WebSocket(url)
Construct(url) ==
  /\ \E c \in DOMAIN readyState :
       /\ readyState[c] = "NONE"
       /\ \A b \in 1..(c - 1) : readyState[b] # "NONE"
       /\ IF UrlMatches(url)
          THEN /\ webSocketWrapper' = c
               /\ readyState' = [readyState EXCEPT ![c] = "CONNECTING"]
          ELSE UNCHANGED <<webSocketWrapper, readyState>>
  /\ last' = Ev("construct", <<>>, UrlMatches(url))
  /\ delay' = 0
  /\ UNCHANGED <<domReady, stockfishLoaded, initTimers, currentFen, bestMove,
                 isEngineReady, isCalculating, lastCalculatedFen, moveHistory,
                 settings, timers, outbox, engineReqs, nInputs, results, run, fenIn,
                 fenOut>>

\* the browser moves a socket to OPEN, or to CLOSING when close() is called
SocketOpen(c) ==
  /\ readyState[c] = "CONNECTING"
  /\ readyState' = [readyState EXCEPT ![c] = "OPEN"]
  /\ last' = Ev("open", <<>>, TRUE)
  /\ delay' = 0
  /\ UNCHANGED <<domReady, stockfishLoaded, initTimers, webSocketWrapper,
                 currentFen, bestMove, isEngineReady, isCalculating,
                 lastCalculatedFen, moveHistory, settings, timers, outbox,
                 engineReqs, nInputs, results, run, fenIn, fenOut>>

SocketClosing(c) ==
  /\ readyState[c] \in {"CONNECTING", "OPEN"}
  /\ readyState' = [readyState EXCEPT ![c] = "CLOSING"]
  /\ last' = Ev("closing", <<>>, TRUE)
  /\ delay' = 0
  /\ UNCHANGED <<domReady, stockfishLoaded, initTimers, webSocketWrapper,
                 currentFen, bestMove, isEngineReady, isCalculating,
                 lastCalculatedFen, moveHistory, settings, timers, outbox,
                 engineReqs, nInputs, results, run, fenIn, fenOut>>

SocketClose_AlwaysClears(c) ==
  /\ readyState[c] \in {"CONNECTING", "OPEN", "CLOSING"}
  /\ readyState' = [readyState EXCEPT ![c] = "CLOSED"]
  /\ webSocketWrapper' = 0
  /\ last' = Ev("close", <<>>, webSocketWrapper = c)
  /\ delay' = 0
  /\ UNCHANGED <<domReady, stockfishLoaded, initTimers, currentFen, bestMove,
                 isEngineReady, isCalculating, lastCalculatedFen, moveHistory,
                 settings, timers, outbox, engineReqs, nInputs, results, run,
                 fenIn, fenOut>>

\* close event: the socket is CLOSED; the close listener runs, lines 152-157
SocketClose(c) ==
  /\ readyState[c] \in {"CONNECTING", "OPEN", "CLOSING"}
  /\ readyState' = [readyState EXCEPT ![c] = "CLOSED"]
  /\ webSocketWrapper' = IF webSocketWrapper = c THEN 0 ELSE webSocketWrapper
  /\ last' = Ev("close", <<>>, webSocketWrapper = c)
  /\ delay' = 0
  /\ UNCHANGED <<domReady, stockfishLoaded, initTimers, currentFen, bestMove,
                 isEngineReady, isCalculating, lastCalculatedFen, moveHistory,
                 settings, timers, outbox, engineReqs, nInputs, results, run, fenIn,
                 fenOut>>

\* the run of consecutive state-update frames completing to one position
NextRun(fen, submitted) ==
  LET n == IF submitted THEN 1 ELSE 0 IN
  IF run.len > 0 /\ fen = currentFen
  THEN [run EXCEPT !.len = IF run.len < 2 THEN run.len + 1 ELSE 2,
                   !.subs = run.subs + n]
  ELSE [len |-> 1, subs |-> n, first |-> submitted]

\* line 125: message.d && typeof message.d.fen === "string"
HasFen_Always(d) == TRUE

HasFen(d) == d.fen # Undefined

\* lines 137-140: the handler's own gate before calling calculateMove
HandlerGate == isEngineReady /\ ~isCalculating

GameEnded_KeepsMove ==
  /\ last' = Ev("end", <<>>, FALSE)
  /\ UNCHANGED <<currentFen, bestMove, isCalculating, lastCalculatedFen,
                 engineReqs, run>>

\* case 'end' / 'endData', lines 143-148
GameEnded ==
  /\ bestMove' = Null
  /\ last' = Ev("end", <<>>, FALSE)
  /\ UNCHANGED <<currentFen, isCalculating, lastCalculatedFen, engineReqs,
                 run>>

\* message listener, lines 114-150
WsMessage(c, m) ==
  /\ readyState[c] = "OPEN"
  /\ nInputs < MaxInputs
  /\ nInputs' = nInputs + 1
  /\ IF m.json /\ m.t \in {"d", "move"} /\ HasFen(m.d)
     THEN LET fen == FrameFen(m.d.fen, m.d.hasPly, m.d.ply)
              r == IF HandlerGate THEN calculateMove(fen, lastCalculatedFen)
                   ELSE NoCalculate
          IN /\ currentFen' = fen
             /\ ApplyCalculate(r)
             /\ run' = NextRun(fen, r.submitted)
             /\ last' = [Ev("frame", m.d.fen, r.submitted) EXCEPT
                           !.ply = PlyOf(m.d.hasPly, m.d.ply)]
             /\ UNCHANGED bestMove
     ELSE IF m.json /\ m.t \in {"end", "endData"}
     THEN GameEnded
     ELSE /\ last' = Ev(IF m.json /\ m.t \in {"d", "move"}
                         THEN "frame" ELSE "ignored", m.d.fen, FALSE)
          /\ UNCHANGED <<currentFen, bestMove, isCalculating,
                         lastCalculatedFen, engineReqs, run>>
  /\ delay' = 0
  /\ UNCHANGED <<domReady, stockfishLoaded, initTimers, webSocketWrapper,
                 readyState, isEngineReady, moveHistory, settings, timers,
                 outbox, results, fenIn, fenOut>>

---------------------------------------------------------------------------
(* Engine: initializeChessEngine, lines 172-207 *)

initializeChessEngine_GivesUp(throws, pending) ==
  IF ~stockfishLoaded
  THEN /\ initTimers' = pending + 1
       /\ UNCHANGED isEngineReady
  ELSE IF throws
  THEN /\ initTimers' = pending
       /\ UNCHANGED isEngineReady
  ELSE /\ isEngineReady' = TRUE
       /\ initTimers' = pending

\* one call of initializeChessEngine with `pending` retry timers waiting;
\* throws: STOCKFISH() or a postMessage of the handshake raised an exception
initializeChessEngine(throws, pending) ==
  IF ~stockfishLoaded \/ throws
  THEN /\ initTimers' = pending + 1
       /\ UNCHANGED isEngineReady
  ELSE /\ isEngineReady' = TRUE
       /\ initTimers' = pending

\* the @require'd engine script finishes loading
StockfishLoad ==
  /\ ~stockfishLoaded
  /\ stockfishLoaded' = TRUE
  /\ last' = Ev("load", <<>>, TRUE)
  /\ delay' = 0
  /\ UNCHANGED <<domReady, initTimers, webSocketWrapper, readyState,
                 currentFen, bestMove, isEngineReady, isCalculating,
                 lastCalculatedFen, moveHistory, settings, timers, outbox,
                 engineReqs, nInputs, results, run, fenIn, fenOut>>

\* init(), lines 795-815: createUI, initializeChessEngine, shortcuts
DomContentLoaded(throws) ==
  /\ ~domReady
  /\ domReady' = TRUE
  /\ initializeChessEngine(throws, initTimers)
  /\ last' = Ev("domready", <<>>, ~throws /\ stockfishLoaded)
  /\ delay' = 0
  /\ UNCHANGED <<stockfishLoaded, webSocketWrapper, readyState, currentFen,
                 bestMove, isCalculating, lastCalculatedFen, moveHistory,
                 settings, timers, outbox, engineReqs, nInputs, results, run, fenIn,
                 fenOut>>

\* a retry timer of lines 176 / 205 fires
InitRetry(throws) ==
  /\ initTimers > 0
  /\ initializeChessEngine(throws, initTimers - 1)
  /\ last' = Ev("retry", <<>>, ~throws /\ stockfishLoaded)
  /\ delay' = 0
  /\ UNCHANGED <<domReady, stockfishLoaded, webSocketWrapper, readyState,
                 currentFen, bestMove, isCalculating, lastCalculatedFen,
                 moveHistory, settings, timers, outbox, engineReqs, nInputs, results,
                 run, fenIn, fenOut>>

---------------------------------------------------------------------------
(* Engine output: setupChessEngineOnMessage, lines 209-252 *)

\* message.split(" ")[1]
SecondField(message) ==
  LET parts == Split(message) IN
  IF Len(parts) >= 2 THEN parts[2] ELSE Undefined

Accepted_FreshOnly(move) ==
  Truthy(move) /\ move # noneToken /\ currentFen = lastCalculatedFen

\* line 217
Accepted(move) == Truthy(move) /\ move # noneToken

PushHistory_EvictNewest(h, e) ==
  LET h2 == Append(h, e) IN
  IF Len(h2) > HistoryCap THEN SubSeq(h2, 1, HistoryCap) ELSE h2

\* lines 222-227
PushHistory(h, e) ==
  LET h2 == Append(h, e) IN IF Len(h2) > HistoryCap THEN Tail(h2) ELSE h2

\* the onmessage handler, lines 210-251
onmessage(message) ==
  IF Includes(message, bestmoveWord)
  THEN LET move == SecondField(message) IN
       /\ isCalculating' = FALSE
       /\ bestMove' = move
       /\ IF Accepted(move)
          THEN /\ moveHistory' =
                    PushHistory(moveHistory, [fen |-> currentFen, move |-> move])
               /\ results' = Append(results, [fen |-> currentFen, move |-> move])
               /\ IF settings.autoMove
                  THEN /\ BagCardinality(timers) < MaxTimers
                       /\ sendMoveWithDelay(move)
                  ELSE UNCHANGED timers /\ delay' = 0
               /\ last' = Ev("bestmove", move, settings.autoMove)
          ELSE /\ UNCHANGED <<moveHistory, results, timers>> /\ delay' = 0
               /\ last' = Ev("bestmove", move, FALSE)
  ELSE \* "info depth ..." only updates the panel
       /\ UNCHANGED <<isCalculating, bestMove, moveHistory, results, timers>>
       /\ delay' = 0
       /\ last' = Ev("info", <<>>, FALSE)

\* the engine ends the search of the oldest unanswered request with `line`
EngineBestmove(line) ==
  /\ engineReqs # <<>>
  /\ engineReqs' = Tail(engineReqs)
  /\ onmessage(line)
  /\ UNCHANGED <<domReady, stockfishLoaded, initTimers, webSocketWrapper,
                 readyState, currentFen, isEngineReady, lastCalculatedFen,
                 settings, outbox, nInputs, run, fenIn, fenOut>>

\* the engine reports progress of the search it is running
EngineInfo(line) ==
  /\ engineReqs # <<>>
  /\ onmessage(line)
  /\ UNCHANGED <<domReady, stockfishLoaded, initTimers, webSocketWrapper,
                 readyState, currentFen, isEngineReady, lastCalculatedFen,
                 settings, outbox, engineReqs, nInputs, run, fenIn, fenOut>>

---------------------------------------------------------------------------
(* Dispatch timer callback, lines 327-330 *)

\* the arrow function of lines 327-330, for the timer that captured `move`
timerCallback(move) ==
  /\ BagIn(move, timers)
  /\ LET r == sendMove(move) IN
       /\ bestMove' = r.bestMove
       /\ outbox' = r.outbox
       /\ last' = Ev("timer", <<>>, r.ok)
  /\ timers' = timers (-) SetToBag({move})
  /\ delay' = 0
  /\ UNCHANGED <<domReady, stockfishLoaded, initTimers, webSocketWrapper,
                 readyState, currentFen, isEngineReady, isCalculating,
                 lastCalculatedFen, moveHistory, settings, engineReqs,
                 nInputs, results, run, fenIn, fenOut>>

TimerFire(move) ==
  /\ sendMove(move).ok => Len(outbox) < MaxSent
  /\ timerCallback(move)

---------------------------------------------------------------------------
(* Commands of the panel and the keyboard, lines 693-705 and 749-778 *)

\* Play button (693-699) and Alt+M (751-758)
play_btn ==
  /\ domReady
  /\ IF Truthy(bestMove)
     THEN /\ sendMoveWithDelay(bestMove)
          /\ last' = Ev("play", <<>>, TRUE)
     ELSE /\ UNCHANGED timers /\ delay' = 0
          /\ last' = Ev("play", <<>>, FALSE)
  /\ UNCHANGED <<domReady, stockfishLoaded, initTimers, webSocketWrapper,
                 readyState, currentFen, bestMove, isEngineReady,
                 isCalculating, lastCalculatedFen, moveHistory, settings,
                 outbox, engineReqs, nInputs, results, run, fenIn, fenOut>>

PlayMove ==
  /\ Truthy(bestMove) => BagCardinality(timers) < MaxTimers
  /\ play_btn

calc_btn_KeepsMarker ==
  /\ domReady
  /\ nInputs' = nInputs + 1
  /\ LET r == calculateMove(currentFen, lastCalculatedFen) IN
       /\ ApplyCalculate(r)
       /\ last' = Ev("recalc", <<>>, r.submitted)
  /\ run' = NoRun
  /\ delay' = 0
  /\ UNCHANGED <<domReady, stockfishLoaded, initTimers, webSocketWrapper,
                 readyState, currentFen, bestMove, isEngineReady, moveHistory,
                 settings, timers, outbox, results, fenIn, fenOut>>

\* Recalculate button (701-705) and Alt+C (772-777)
calc_btn ==
  /\ domReady
  /\ nInputs' = nInputs + 1
  /\ LET r == calculateMove(currentFen, Null) IN
       /\ ApplyCalculate(r)
       /\ last' = Ev("recalc", <<>>, r.submitted)
  /\ run' = NoRun
  /\ delay' = 0
  /\ UNCHANGED <<domReady, stockfishLoaded, initTimers, webSocketWrapper,
                 readyState, currentFen, bestMove, isEngineReady, moveHistory,
                 settings, timers, outbox, results, fenIn, fenOut>>

Recalculate == nInputs < MaxInputs /\ calc_btn

\* Auto-move toggle (634-639) and Alt+A (761-769)
ToggleAutoMove ==
  /\ domReady
  /\ settings' = [settings EXCEPT !.autoMove = ~settings.autoMove]
  /\ last' = Ev("automove", <<>>, ~settings.autoMove)
  /\ delay' = 0
  /\ UNCHANGED <<domReady, stockfishLoaded, initTimers, webSocketWrapper,
                 readyState, currentFen, bestMove, isEngineReady,
                 isCalculating, lastCalculatedFen, moveHistory, timers,
                 outbox, engineReqs, nInputs, results, run, fenIn, fenOut>>

---------------------------------------------------------------------------
(* The pipeline *)

Next ==
  \/ \E url \in Urls : Construct(url)
  \/ \E c \in 1..MaxConns : SocketOpen(c)
  \/ \E c \in 1..MaxConns : SocketClosing(c)
  \/ \E c \in 1..MaxConns : SocketClose(c)
  \/ \E c \in 1..MaxConns, m \in Messages : WsMessage(c, m)
  \/ StockfishLoad
  \/ \E throws \in BOOLEAN : DomContentLoaded(throws)
  \/ \E throws \in BOOLEAN : InitRetry(throws)
  \/ \E line \in EngineLines : EngineBestmove(line)
  \/ \E line \in InfoLines : EngineInfo(line)
  \/ \E move \in BagToSet(timers) : TimerFire(move)
  \/ PlayMove
  \/ Recalculate
  \/ ToggleAutoMove

Spec == Init /\ [][Next]_vars

---------------------------------------------------------------------------
(* Timing configuration handlers, lines 663-682 *)

NaN == [nan |-> TRUE, n |-> 0]
DigitValue ==
  [c \in {"0", "1", "2", "3", "4", "5", "6", "7", "8", "9"} |->
     CASE c = "0" -> 0 [] c = "1" -> 1 [] c = "2" -> 2 [] c = "3" -> 3
       [] c = "4" -> 4 [] c = "5" -> 5 [] c = "6" -> 6 [] c = "7" -> 7
       [] c = "8" -> 8 [] c = "9" -> 9]

RECURSIVE LeadingDigits(_)
LeadingDigits(s) ==
  IF s = <<>> \/ Head(s) \notin DOMAIN DigitValue THEN <<>>
  ELSE <<Head(s)>> \o LeadingDigits(Tail(s))

RECURSIVE DigitsValue(_, _)
DigitsValue(ds, acc) ==
  IF ds = <<>> THEN acc
  ELSE DigitsValue(Tail(ds), 10 * acc + DigitValue[Head(ds)])

\* parseInt(text): optional sign, then the leading decimal digits
parseInt(text) ==
  LET signed == text # <<>> /\ Head(text) \in {"-", "+"}
      ds == LeadingDigits(IF signed THEN Tail(text) ELSE text)
      v == DigitsValue(ds, 0)
  IN IF ds = <<>> THEN NaN
     ELSE [nan |-> FALSE, n |-> IF Head(text) = "-" THEN 0 - v ELSE v]

\* parseInt(text) || fallback
OrElse(p, fallback) == IF p.nan \/ p.n = 0 THEN fallback ELSE p.n

Max(a, b) == IF a >= b THEN a ELSE b

\* line 672
NewMinDelay(text) == Max(MinDelayFloor, OrElse(parseInt(text), MinDelayFallback))

\* line 679
NewMaxDelay(text) ==
  Max(settings.minDelay + DelayGap, OrElse(parseInt(text), MaxDelayFallback))

\* e.target.value of the two number inputs
DelayTexts ==
  { <<>>, <<"-", "5">>, <<"1", ".", "9">>, <<"1", "9", "5", "0">> }

MinDelayChange(text) ==
  /\ domReady
  /\ settings' = [settings EXCEPT !.minDelay = NewMinDelay(text)]
  /\ last' = Ev("mindelay", <<>>, TRUE)
  /\ delay' = 0
  /\ UNCHANGED <<domReady, stockfishLoaded, initTimers, webSocketWrapper,
                 readyState, currentFen, bestMove, isEngineReady,
                 isCalculating, lastCalculatedFen, moveHistory, timers,
                 outbox, engineReqs, nInputs, results, run, fenIn, fenOut>>

MaxDelayChange(text) ==
  /\ domReady
  /\ settings' = [settings EXCEPT !.maxDelay = NewMaxDelay(text)]
  /\ last' = Ev("maxdelay", <<>>, TRUE)
  /\ delay' = 0
  /\ UNCHANGED <<domReady, stockfishLoaded, initTimers, webSocketWrapper,
                 readyState, currentFen, bestMove, isEngineReady,
                 isCalculating, lastCalculatedFen, moveHistory, timers,
                 outbox, engineReqs, nInputs, results, run, fenIn, fenOut>>

ToggleHumanTiming ==
  /\ domReady
  /\ settings' = [settings EXCEPT !.humanLikeTiming = ~settings.humanLikeTiming]
  /\ last' = Ev("human", <<>>, ~settings.humanLikeTiming)
  /\ delay' = 0
  /\ UNCHANGED <<domReady, stockfishLoaded, initTimers, webSocketWrapper,
                 readyState, currentFen, bestMove, isEngineReady,
                 isCalculating, lastCalculatedFen, moveHistory, timers,
                 outbox, engineReqs, nInputs, results, run, fenIn, fenOut>>

---------------------------------------------------------------------------
(* States the pipeline reaches from Init, used to start the narrower
   specifications below *)

e2e4 == <<"e", "2", "e", "4">>
startFen == FrameFen(<<"A">>, TRUE, 0)

\* after DomContentLoaded with the engine loaded, Construct of a matching
\* URL and SocketOpen
Listening ==
  /\ domReady = TRUE
  /\ stockfishLoaded = TRUE
  /\ initTimers = 0
  /\ webSocketWrapper = 1
  /\ readyState = [c \in 1..MaxConns |-> IF c = 1 THEN "OPEN" ELSE "NONE"]
  /\ currentFen = <<>>
  /\ bestMove = Null
  /\ isEngineReady = TRUE
  /\ isCalculating = FALSE
  /\ lastCalculatedFen = Null
  /\ moveHistory = <<>>
  /\ settings = defaultSettings
  /\ timers = EmptyBag
  /\ delay = 0
  /\ outbox = <<>>
  /\ engineReqs = <<>>
  /\ nInputs = 0
  /\ results = <<>>
  /\ run = NoRun
  /\ last = Ev("open", <<>>, TRUE)
  /\ fenIn = <<>>
  /\ fenOut = Undefined

\* after Listening, a frame {t: "move", d: {fen: "A", ply: 0}} and the
\* engine's line "bestmove e2e4 ponder e7e5"; the socket then either stays
\* open or starts closing
HasBestMove ==
  /\ domReady = TRUE
  /\ stockfishLoaded = TRUE
  /\ initTimers = 0
  /\ webSocketWrapper = 1
  /\ \E st \in {"OPEN", "CLOSING"} :
       /\ readyState = [c \in 1..MaxConns |-> IF c = 1 THEN st ELSE "NONE"]
       /\ last = IF st = "OPEN" THEN Ev("bestmove", e2e4, FALSE)
                 ELSE Ev("closing", <<>>, TRUE)
  /\ currentFen = startFen
  /\ bestMove = e2e4
  /\ isEngineReady = TRUE
  /\ isCalculating = FALSE
  /\ lastCalculatedFen = startFen
  /\ moveHistory = << [fen |-> startFen, move |-> e2e4] >>
  /\ settings = defaultSettings
  /\ timers = EmptyBag
  /\ delay = 0
  /\ outbox = <<>>
  /\ engineReqs = <<>>
  /\ nInputs = 1
  /\ results = moveHistory
  /\ run = [len |-> 1, subs |-> 1, first |-> TRUE]
  /\ fenIn = <<>>
  /\ fenOut = Undefined

---------------------------------------------------------------------------
(* Frames of every field count, from Listening *)

NextFrames ==
  \/ \E c \in 1..MaxConns, m \in WideMessages : WsMessage(c, m)
  \/ \E line \in EngineLines : EngineBestmove(line)
  \/ \E line \in InfoLines : EngineInfo(line)

SpecFrames == Listening /\ [][NextFrames]_vars

---------------------------------------------------------------------------
(* Timing configuration and dispatch, from HasBestMove *)

NextTiming ==
  \/ \E text \in DelayTexts : MinDelayChange(text)
  \/ \E text \in DelayTexts : MaxDelayChange(text)
  \/ ToggleHumanTiming
  \/ PlayMove
  \/ \E move \in BagToSet(timers) : TimerFire(move)

SpecTiming == HasBestMove /\ [][NextTiming]_vars

---------------------------------------------------------------------------
(* Start-up: the engine script loads at any time, the page opens sockets and
   the user toggles auto-move while initialization is retried.  The DOM
   event is delivered and a pending retry timer fires. *)

NextStartup ==
  \/ StockfishLoad
  \/ \E throws \in BOOLEAN : DomContentLoaded(throws)
  \/ \E throws \in BOOLEAN : InitRetry(throws)
  \/ \E url \in Urls : Construct(url)
  \/ \E c \in 1..MaxConns : SocketOpen(c)
  \/ \E c \in 1..MaxConns : SocketClosing(c)
  \/ \E c \in 1..MaxConns : SocketClose(c)
  \/ ToggleAutoMove

SpecStartup ==
  /\ Init
  /\ [][NextStartup]_vars
  /\ WF_vars(\E throws \in BOOLEAN : DomContentLoaded(throws))
  /\ WF_vars(\E throws \in BOOLEAN : InitRetry(throws))

---------------------------------------------------------------------------
(* A page that opens, closes and replaces its sockets while the script
   starts up *)

InitSockets ==
  /\ domReady = FALSE
  /\ stockfishLoaded = TRUE
  /\ initTimers = 0
  /\ webSocketWrapper = 0
  /\ readyState = [c \in 1..MaxSockets |-> "NONE"]
  /\ currentFen = <<>>
  /\ bestMove = Null
  /\ isEngineReady = FALSE
  /\ isCalculating = FALSE
  /\ lastCalculatedFen = Null
  /\ moveHistory = <<>>
  /\ settings = defaultSettings
  /\ timers = EmptyBag
  /\ delay = 0
  /\ outbox = <<>>
  /\ engineReqs = <<>>
  /\ nInputs = 0
  /\ results = <<>>
  /\ run = NoRun
  /\ last = Ev("init", <<>>, TRUE)
  /\ fenIn = <<>>
  /\ fenOut = Undefined

NextSockets ==
  \/ \E url \in Urls : Construct(url)
  \/ \E c \in 1..MaxSockets : SocketOpen(c)
  \/ \E c \in 1..MaxSockets : SocketClosing(c)
  \/ \E c \in 1..MaxSockets : SocketClose(c)
  \/ \E throws \in BOOLEAN : DomContentLoaded(throws)
  \/ \E throws \in BOOLEAN : InitRetry(throws)
  \/ ToggleAutoMove

SpecSockets == InitSockets /\ [][NextSockets]_vars

---------------------------------------------------------------------------
(* Move tokens of every length, from Listening *)

\* terminal lines whose second field is absent, empty, short, 4, 5 or 6
\* characters long
MoveLines ==
  { bestmoveWord,
    bestmoveWord \o <<" ">>,
    bestmoveWord \o <<" ", "e", "2">>,
    bestmoveWord \o <<" ", "e", "2", "e", "4">>,
    bestmoveWord \o <<" ", "e", "7", "e", "8", "q">>,
    bestmoveWord \o <<" ">> \o noneToken }

NextMoves ==
  \/ \E c \in 1..MaxConns, m \in Messages : WsMessage(c, m)
  \/ \E line \in MoveLines : EngineBestmove(line)
  \/ \E move \in BagToSet(timers) : TimerFire(move)
  \/ PlayMove
  \/ ToggleAutoMove

SpecMoves == Listening /\ [][NextMoves]_vars

---------------------------------------------------------------------------
(* A long session, from HasBestMove: more results than the history holds *)

e7e8q == <<"e", "7", "e", "8", "q">>

\* the terminal line of the search that follows k accepted results: the
\* moves alternate, so that neighbouring history entries differ
HistoryLine(k) ==
  bestmoveWord \o <<" ">> \o (IF k % 2 = 0 THEN e2e4 ELSE e7e8q)

NextHistory ==
  \/ nInputs < MaxResults /\ calc_btn
  \/ EngineBestmove(HistoryLine(Len(results)))
  \/ EngineBestmove(bestmoveWord \o <<" ">> \o noneToken)

SpecHistory == HasBestMove /\ [][NextHistory]_vars

---------------------------------------------------------------------------
(* Overlapping dispatch, from HasBestMove: manual dispatch commands repeated
   while earlier delay timers are pending, with auto-dispatch of new results *)

NextDispatch ==
  \/ BagCardinality(timers) < MaxPending /\ play_btn
  \/ \E move \in BagToSet(timers) :
       Len(outbox) < MaxFrames /\ timerCallback(move)
  \/ ToggleAutoMove
  \/ nInputs < MaxInputs /\ calc_btn
  \/ EngineBestmove(HistoryLine(Len(results)))

SpecDispatch == HasBestMove /\ [][NextDispatch]_vars

---------------------------------------------------------------------------
(* Position updates against a live engine: the engine script loads, the DOM
   event is delivered, a pending retry timer fires and the engine ends
   every search it was given *)

NextLatest ==
  \/ StockfishLoad
  \/ \E throws \in BOOLEAN : DomContentLoaded(throws)
  \/ \E throws \in BOOLEAN : InitRetry(throws)
  \/ \E url \in Urls : Construct(url)
  \/ \E c \in 1..MaxConns : SocketOpen(c)
  \/ \E c \in 1..MaxConns, m \in Messages : WsMessage(c, m)
  \/ \E line \in EngineLines : EngineBestmove(line)
  \/ Recalculate

SpecLatest ==
  /\ Init
  /\ [][NextLatest]_vars
  /\ WF_vars(StockfishLoad)
  /\ WF_vars(\E throws \in BOOLEAN : DomContentLoaded(throws))
  /\ WF_vars(\E throws \in BOOLEAN : InitRetry(throws))
  /\ WF_vars(\E line \in EngineLines : EngineBestmove(line))

---------------------------------------------------------------------------
(* completeFen applied to strings of 0 .. MaxFields + 1 fields *)

InitFen ==
  /\ InitPipeline
  /\ fenIn \in FenStrings
  /\ fenOut = Undefined

Complete ==
  /\ fenOut = Undefined
  /\ fenOut' = completeFen(fenIn)
  /\ delay' = 0
  /\ UNCHANGED <<domReady, stockfishLoaded, initTimers, webSocketWrapper,
                 readyState, currentFen, bestMove, isEngineReady,
                 isCalculating, lastCalculatedFen, moveHistory, settings,
                 timers, outbox, engineReqs, nInputs, results, run, last, fenIn>>

\* the result is completed again
Recomplete ==
  /\ fenOut # Undefined
  /\ fenIn' = fenOut
  /\ fenOut' = completeFen(fenOut)
  /\ delay' = 0
  /\ UNCHANGED <<domReady, stockfishLoaded, initTimers, webSocketWrapper,
                 readyState, currentFen, bestMove, isEngineReady,
                 isCalculating, lastCalculatedFen, moveHistory, settings,
                 timers, outbox, engineReqs, nInputs, results, run, last>>

NextFen == Complete \/ Recomplete

SpecFen == InitFen /\ [][NextFen]_vars

---------------------------------------------------------------------------
(* Properties *)

\* a connection is tracked and its readyState is OPEN
TrackedOpen ==
  /\ webSocketWrapper \in DOMAIN readyState
  /\ readyState[webSocketWrapper] = "OPEN"

\* C1: at most one analysis request is outstanding, and a request is
\* outstanding only when the engine is Ready and the adapter Calculating
C1_AdmissionGate ==
  /\ Len(engineReqs) <= 1
  /\ engineReqs # <<>> => isEngineReady /\ isCalculating

\* a request is outstanding and an input asking for another position, or a
\* recalculate command, has just been refused
C1_Refused ==
  /\ Len(engineReqs) = 1
  /\ last.op \in {"frame", "recalc"}
  /\ ~last.ok
  /\ last.op = "frame" => last.arg # Undefined /\ currentFen # Head(engineReqs)

\* C2: the consecutive state-update frames completing to one position (no
\* recalculate command between them) submit at most one request, and exactly
\* one when the first of them was submitted
C2_SubmissionDedup ==
  /\ run.subs <= 1
  /\ run.len >= 2 /\ run.first => run.subs = 1

\* the second identical frame arrived after the first request completed
C2_SecondAfterCompletion ==
  /\ run.len = 2
  /\ run.first
  /\ last.op = "frame"
  /\ ~isCalculating
  /\ bestMove # Null

\* C3: no outbound move frame carries the token (none)
C3_NoneNeverDispatched ==
  \A i \in 1..Len(outbox) : outbox[i].msg.d.u # noneToken

\* C4 as claimed: whenever a dispatch timer has fired, the stored result is
\* cleared
C4_ClearedOnFire == last.op = "timer" => bestMove = Null

\* C4: a dispatch timer that fires removes itself and schedules nothing; the
\* stored result is cleared when the send succeeded and kept when it failed,
\* and the send fails when the connection is absent or not open
C4_ClearedOnSuccessOnly ==
  [][last'.op = "timer" =>
       /\ BagCardinality(timers') = BagCardinality(timers) - 1
       /\ last'.ok => bestMove' = Null
       /\ ~last'.ok => bestMove' = bestMove /\ outbox' = outbox
       /\ ~TrackedOpen => ~last'.ok]_vars

\* a timer fired with no tracked connection and the move is still stored
C4_FailedSendKeepsMove ==
  /\ last.op = "timer"
  /\ ~last.ok
  /\ webSocketWrapper = 0
  /\ Truthy(bestMove)
  /\ timers = EmptyBag

\* C5: every position handed to the engine has exactly six
\* whitespace-separated fields
C5_SixFields ==
  \A i \in 1..Len(engineReqs) : Len(Fields(engineReqs[i])) = 6

\* C6: for an input of 2 to 6 space-separated fields completeFen gives 6
\* fields, keeps the fields present, fills the missing ones with - - 0 1,
\* and completing the result again changes nothing
FenDefaults == << <<>>, <<>>, <<"-">>, <<"-">>, <<"0">>, <<"1">> >>

C6_CompleteFen ==
  LET parts == Split(fenIn)
      out == Split(fenOut)
  IN (fenOut # Undefined /\ Len(parts) \in 2..6) =>
       /\ Len(out) = 6
       /\ \A i \in 1..Len(parts) : out[i] = parts[i]
       /\ \A i \in (Len(parts) + 1)..6 : out[i] = FenDefaults[i]
       /\ completeFen(fenOut) = fenOut

\* a two-field input has been completed to six fields
C6_TwoFieldsCompleted ==
  /\ fenOut # Undefined
  /\ Len(Split(fenIn)) = 2
  /\ Len(Split(fenOut)) = 6

\* C7 as claimed: a state-update frame whose position has fewer than 2 fields
\* replaces nothing and submits nothing
C7_ShortRejected ==
  [][(last'.op = "frame" /\ last'.arg # Undefined /\ Len(Split(last'.arg)) < 2)
       => currentFen' = currentFen /\ engineReqs' = engineReqs]_vars

\* C7: a state-update frame is rejected only when it carries no position
\* string; any position string, also one of fewer than 2 fields, gets the
\* side to move appended, is completed, replaces currentFen and is submitted
\* when the engine is ready, idle and the position differs from the last
\* submitted one
C7_OnlyMissingFenRejected ==
  [][last'.op = "frame" =>
       IF last'.arg = Undefined
       THEN currentFen' = currentFen /\ engineReqs' = engineReqs /\ ~last'.ok
       ELSE /\ currentFen' \in {completeFen(last'.arg \o <<" ", "w">>),
                                completeFen(last'.arg \o <<" ", "b">>)}
            /\ Len(Split(currentFen')) >= 2
            /\ last'.ok <=> (isEngineReady /\ ~isCalculating
                              /\ currentFen' # lastCalculatedFen)
            /\ last'.ok => engineReqs' = Append(engineReqs, currentFen')]_vars

\* a frame carrying only the piece placement was submitted to the engine
C7_OneFieldSubmitted ==
  /\ last.op = "frame"
  /\ last.arg = <<"A">>
  /\ last.ok
  /\ engineReqs = <<currentFen>>

\* C8: maxDelay >= minDelay + 100 after any configuration writes
C8_DelayGap == settings.maxDelay >= settings.minDelay + DelayGap

\* C9: the delay sendMoveWithDelay computes is in [minDelay, maxDelay) with
\* humanLikeTiming on and is minDelay with it off
C9_DelayBounds ==
  (last.op \in {"play", "bestmove"} /\ last.ok) =>
    IF settings.humanLikeTiming
    THEN settings.minDelay <= delay /\ delay < settings.maxDelay
    ELSE delay = settings.minDelay

\* C10: a frame is emitted only on the tracked connection while it is open;
\* with the connection absent or not open sendMove fails, emits nothing and
\* schedules nothing
C10_SendOnlyWhenOpen ==
  [][/\ outbox' # outbox =>
          /\ TrackedOpen
          /\ outbox' = Append(outbox, outbox'[Len(outbox')])
          /\ outbox'[Len(outbox')].sock = webSocketWrapper
     /\ (last'.op = "timer" /\ ~TrackedOpen) =>
          /\ ~last'.ok
          /\ outbox' = outbox
          /\ BagCardinality(timers') = BagCardinality(timers) - 1]_vars

\* a timer fired while the tracked connection was closing: nothing was sent
C10_NotOpenNoFrame ==
  /\ last.op = "timer"
  /\ ~last.ok
  /\ webSocketWrapper # 0
  /\ readyState[webSocketWrapper] = "CLOSING"
  /\ outbox = <<>>

\* the move carried by the dispatch timer that fires in this step
FiredMoves == {m \in BagToSet(timers) : CopiesIn(m, timers') < CopiesIn(m, timers)}

\* C11: every outbound frame is {t: "move", d: {u, b: 1, l: 10000, a: 1}}
\* with a token of at least 4 characters; a timer firing with a shorter token
\* sends nothing, a manual dispatch of an empty token schedules nothing, and
\* a timer firing with a 4- or 5-character token on an open connection sends
\* that token
C11_NoShortToken ==
  [][/\ \A i \in 1..Len(outbox') :
          /\ Len(outbox'[i].msg.d.u) >= MinMoveLength
          /\ outbox'[i].msg =
               [t |-> "move",
                d |-> [u |-> outbox'[i].msg.d.u, b |-> 1, l |-> 10000, a |-> 1]]
     /\ last'.op = "timer" =>
          \A m \in FiredMoves :
            /\ Len(m) < MinMoveLength => outbox' = outbox /\ ~last'.ok
            /\ (Len(m) \in {4, 5} /\ TrackedOpen) =>
                 /\ last'.ok
                 /\ Len(outbox') = Len(outbox) + 1
                 /\ outbox'[Len(outbox')].msg.d.u = m
     /\ (last'.op = "play" /\ bestMove = <<>>) =>
          timers' = timers /\ outbox' = outbox /\ ~last'.ok]_vars

\* the timer of the two-character token e2 fired on an open connection and
\* nothing was sent
C11_ShortTokenDropped ==
  /\ last.op = "timer"
  /\ ~last.ok
  /\ TrackedOpen
  /\ bestMove = <<"e", "2">>
  /\ outbox = <<>>

\* the last k elements of s
LastOf(s, k) == SubSeq(s, Len(s) - k + 1, Len(s))

\* C12: the history holds at most 50 entries and equals the last min(n, 50)
\* of the n accepted results, oldest first
C12_HistoryLastFifty ==
  /\ Len(moveHistory) <= HistoryCap
  /\ moveHistory =
       LastOf(results, IF Len(results) < HistoryCap THEN Len(results)
                       ELSE HistoryCap)

\* more than 50 results were accepted and the oldest ones are gone
C12_Evicted ==
  /\ Len(results) > HistoryCap + 1
  /\ Len(moveHistory) = HistoryCap
  /\ moveHistory[1] = results[Len(results) - HistoryCap + 1]
  /\ moveHistory[1] # results[1]

\* C13: a state-update frame handled while a calculation is outstanding
\* leaves the outstanding request, the calculating flag and the
\* last-submitted marker as they are; the terminal line of a request, also
\* of one whose position is no longer the current one, ends the calculation
\* and with auto-dispatch on schedules its move
C13_StaleStillDispatched ==
  [][/\ (last'.op = "frame" /\ isCalculating) =>
          /\ engineReqs' = engineReqs
          /\ isCalculating'
          /\ lastCalculatedFen' = lastCalculatedFen
          /\ ~last'.ok
     /\ (last'.op = "bestmove" /\ settings.autoMove /\ Truthy(bestMove')
          /\ bestMove' # noneToken) =>
          /\ ~isCalculating'
          /\ timers' = timers (+) SetToBag({bestMove'})
          /\ last'.ok]_vars

\* the position changed during the search and the move of the stale
\* request has been scheduled
C13_StaleScheduled ==
  /\ last.op = "bestmove"
  /\ last.ok
  /\ settings.autoMove
  /\ currentFen # lastCalculatedFen
  /\ BagIn(bestMove, timers)

\* an initialization attempt has just failed
AttemptFailed == last.op \in {"domready", "retry"} /\ ~last.ok

\* C14: a failed initialization attempt leaves the adapter not Ready with
\* exactly one retry timer pending, a retry timer is pending only while the
\* adapter is not Ready, and if from some point on the engine is loaded and
\* no attempt fails, the adapter eventually is Ready
C14_RetryUntilReady ==
  /\ [](AttemptFailed => initTimers = 1 /\ ~isEngineReady)
  /\ [](initTimers <= 1 /\ (initTimers = 1 => domReady /\ ~isEngineReady))
  /\ (<>[](stockfishLoaded /\ ~AttemptFailed)) => <>isEngineReady

\* Ready was reached by a retry timer, after at least one failed attempt
C14_ReadyAfterRetry ==
  /\ isEngineReady
  /\ last.op = "retry"
  /\ last.ok
  /\ initTimers = 0

\* C15: a state-update frame publishes its position with w appended for an
\* even ply and b for an odd one, completed; a position that already
\* carries a side-to-move field is completed without a second one
C15_SideToMoveOnce ==
  (last.op = "frame" /\ last.arg # Undefined) =>
    IF Len(Split(last.arg)) >= 2
    THEN currentFen = completeFen(last.arg)
    ELSE currentFen =
           completeFen(last.arg \o (IF last.ply % 2 = 0 THEN <<" ", "w">>
                                                         ELSE <<" ", "b">>))

\* C16: after the terminal line bestmove (none) the stored move is null or
\* empty, no history entry is appended and no dispatch is scheduled
C16_NoneNotStored ==
  [][(last'.op = "bestmove" /\ last'.arg = noneToken) =>
       /\ bestMove' \in {Null, Undefined, <<>>}
       /\ moveHistory' = moveHistory
       /\ timers' = timers]_vars

\* C17: once a new request has been submitted the move of an earlier
\* request is no longer stored: while a request is outstanding bestMove
\* holds no move, so a manual dispatch then schedules nothing
C17_DiscardedOnRequest ==
  /\ engineReqs # <<>> => ~Truthy(bestMove)
  /\ (last.op = "play" /\ last.ok) => engineReqs = <<>>

\* the sockets that get their close event in this step
ClosedNow ==
  {c \in DOMAIN readyState : readyState[c] # "CLOSED" /\ readyState'[c] = "CLOSED"}

\* C18: the tracked connection is none or one intercepted socket; a new
\* matching connection becomes the tracked one; the close event of the
\* tracked connection sets it to none, the close event of any other
\* connection leaves it unchanged; nothing else changes it
C18_ConnectionTracking ==
  [][/\ webSocketWrapper' \in {0} \cup DOMAIN readyState
     /\ (last'.op = "construct" /\ last'.ok) =>
          /\ readyState[webSocketWrapper'] = "NONE"
          /\ readyState'[webSocketWrapper'] = "CONNECTING"
     /\ \A c \in ClosedNow :
          webSocketWrapper' = IF webSocketWrapper = c THEN 0
                              ELSE webSocketWrapper
     /\ webSocketWrapper' # webSocketWrapper =>
          \/ last'.op = "construct" /\ last'.ok
          \/ ClosedNow = {webSocketWrapper}]_vars

\* the first connection was replaced by the second and then got its close
\* event; the second is still tracked
C18_ReplacedClosed ==
  /\ last.op = "close"
  /\ readyState[1] = "CLOSED"
  /\ webSocketWrapper = 2
  /\ readyState[2] \in {"CONNECTING", "OPEN"}

\* C19: a recalculate command issued when the engine is ready and idle and
\* a position is known submits the current position, also when it is the
\* last submitted one; otherwise it submits nothing, clears the
\* last-submitted marker and leaves the request in flight as it is; it
\* never touches the stored move, the timers or the outbound frames
C19_RecalculateForces ==
  [][last'.op = "recalc" =>
       /\ IF isEngineReady /\ ~isCalculating /\ currentFen # <<>>
          THEN /\ last'.ok
               /\ engineReqs' = Append(engineReqs, currentFen)
               /\ isCalculating'
               /\ lastCalculatedFen' = currentFen
          ELSE /\ ~last'.ok
               /\ engineReqs' = engineReqs
               /\ isCalculating' = isCalculating
               /\ lastCalculatedFen' = Null
       /\ UNCHANGED <<currentFen, bestMove, timers, outbox, moveHistory>>]_vars

\* the position whose result was just delivered has been submitted again
C19_SamePositionResubmitted ==
  /\ last.op = "recalc"
  /\ last.ok
  /\ results # <<>>
  /\ results[Len(results)].fen = currentFen
  /\ engineReqs = <<currentFen>>

\* a recalculate command was refused during a search and the search has
\* delivered its result
C19_InFlightDelivered ==
  /\ last.op = "bestmove"
  /\ lastCalculatedFen = Null
  /\ bestMove = e2e4
  /\ results # <<>>

\* C20: handling an end or endData frame sets the stored move to null and
\* leaves the current position, the readiness flag, the calculating flag,
\* the last-submitted marker and the move history unchanged
C20_GameEndedEffect ==
  [][last'.op = "end" =>
       /\ bestMove' = Null
       /\ UNCHANGED <<currentFen, isEngineReady, isCalculating,
                      lastCalculatedFen, moveHistory>>]_vars

\* a game-ended frame arrived while an accepted, undispatched result was
\* stored
C20_EndedWithResult ==
  /\ last.op = "end"
  /\ results # <<>>
  /\ outbox = <<>>
  /\ timers = EmptyBag
  /\ bestMove = Null
  /\ currentFen # <<>>

\* the outbound frames that carry the move m
FramesOf(m) == {i \in 1..Len(outbox) : outbox[i].msg.d.u = m}

\* the accepted terminal lines whose move is m
ResultsOf(m) == {i \in 1..Len(results) : results[i].move = m}

\* C21: every result is dispatched at most once: for every move token there
\* are no more outbound frames carrying it than terminal lines that
\* produced it
C21_DispatchedOnce ==
  \A m \in {e2e4, e7e8q} : Cardinality(FramesOf(m)) <= Cardinality(ResultsOf(m))

\* a state-update frame has just published a position that was not
\* submitted, the engine being busy or not yet ready
PositionDeferred ==
  /\ last.op = "frame"
  /\ last.arg # Undefined
  /\ ~last.ok
  /\ currentFen # lastCalculatedFen
  /\ isCalculating \/ ~isEngineReady

\* C22: a position published while the engine was calculating or not yet
\* ready is eventually submitted, unless a further frame or recalculate
\* command arrives first
C22_LatestAnalysed ==
  \A n \in 0..MaxInputs :
    (PositionDeferred /\ nInputs = n)
      ~> (lastCalculatedFen = currentFen \/ nInputs # n)

\* C23: the history entry appended for a terminal line records the position
\* of the request that line answers
C23_EntryPairsRequest ==
  [][(last'.op = "bestmove" /\ Len(results') > Len(results)) =>
       /\ moveHistory' # <<>>
       /\ moveHistory'[Len(moveHistory')].move = bestMove'
       /\ moveHistory'[Len(moveHistory')].fen = Head(engineReqs)]_vars

\* C24: no move frame is sent after a game-ended frame until a new result
\* is produced; in particular a dispatch timer that was pending when the
\* game ended with the move of an accepted result and fires as the next
\* event sends nothing
C24_NoSendAfterEnd ==
  [][(last.op = "end" /\ last'.op = "timer" /\ noneToken \notin FiredMoves) =>
       outbox' = outbox /\ ~last'.ok]_vars

====
